---- MODULE Spec2Model ----
(***************************************************************************)
(* Model of the graph commands of mlmdquery: the worklist traversal of     *)
(* `graph derived` (the lineage policy, src/derived.rs) and `graph io`     *)
(* (the I/O policy, src/io.rs), followed by Graph::new and Graph::generate *)
(* (src/graph.rs).  The metadata store is the environment: its events are  *)
(* fixed for a run, the answer to each record query is an input of the     *)
(* step that makes the query.                                              *)
(***************************************************************************)
EXTENDS Integers, Sequences, FiniteSets, Bags, TLC

\* ---------------------------------------------------------------- bounds
MaxArtifactId == 2
MaxExecutionId == 2
MaxEvents == 3
MaxRecords == 2
MaxRows == 2
MaxTypeId == 3
MaxTypedEvents == 2
MaxWorkers == 3
MaxCommands == 3

ArtifactIds == 1..MaxArtifactId
ExecutionIds == 1..MaxExecutionId
TypeIds == 1..MaxTypeId

\* ------------------------------------------------------------ data model
\* mlmd::metadata::EventType, as matched by the code.
EventType ==
    {"Unknown", "DeclaredOutput", "DeclaredInput", "Input", "Output",
     "InternalInput", "InternalOutput"}

\* Event.path (a list of steps) and Event.create_time: the code only compares
\* them, two values of each are told apart.
Paths == {<<>>, <<0>>}
Times == {0, 1}

\* mlmd::metadata::Event: all the fields of the event an Edge wraps.
Event ==
    [artifact_id : ArtifactIds, execution_id : ExecutionIds, ty : EventType,
     path : Paths, create_time : Times]

\* The event with an empty path, created at time 0.
EventOf(a, e, ty) ==
    [artifact_id |-> a, execution_id |-> e, ty |-> ty, path |-> <<>>, create_time |-> 0]

\* The store contents explored: every set of at most MaxEvents events of the
\* types Input, Output and Unknown with an empty path and time 0, every single
\* event of any type (the code reads the declared and internal types through
\* the same patterns as Input and Output), and every pair of events between the
\* same artifact and execution, of the same type, that differ in path or time.
CoreEvent ==
    {ev \in Event : ev.ty \in {"Input", "Output", "Unknown"} /\ ev.path = <<>> /\ ev.create_time = 0}

Twins ==
    {{a, b} : a, b \in {ev \in Event : ev.ty \in {"Input", "Output"}}} \ {{ev} : ev \in Event}

Artifact(n) == [kind |-> "Artifact", id |-> n]
Execution(n) == [kind |-> "Execution", id |-> n]

NodeId == {Artifact(n) : n \in ArtifactIds} \cup {Execution(n) : n \in ExecutionIds}

\* Node::id: the NodeId of a fetched record.
NodeIdOf(node) == [kind |-> node.kind, id |-> node.id]

\* The record the store returns for a NodeId.
Node(id) == [kind |-> id.kind, id |-> id.id]

is_input(event) == event.ty \in {"Input", "DeclaredInput", "InternalInput"}

\* Mutant of from_node: only the plain Input type is taken as an input.
from_node_input_only(edge) ==
    IF edge.ty = "Input" THEN Artifact(edge.artifact_id) ELSE Execution(edge.execution_id)

from_node(edge) ==
    IF is_input(edge) THEN Artifact(edge.artifact_id) ELSE Execution(edge.execution_id)

to_node(edge) ==
    IF is_input(edge) THEN Execution(edge.execution_id) ELSE Artifact(edge.artifact_id)

VARIABLES
    events,     \* the events held by the metadata store (fixed during a run)
    rows,       \* per event, the number of rows the store holds it in
    records,    \* per NodeId queried so far, how many records the store holds for it
    policy,     \* "derived" (the lineage policy) or "io": the command that runs
    discipline, \* how the worklist is popped: "stack" (Vec::pop) or "queue"
    origin,     \* the NodeId the traversal starts from
    stack,      \* the worklist
    nodes,      \* the node map: NodeId -> Node
    edges,      \* the edge set
    fetches,    \* per NodeId, how many times get_node asked the store for it
    event_fetches,  \* per NodeId, how many times get_edges asked the store for its events
    returned,   \* the bag of event rows the store returned to get_edges
    pc,         \* "traverse", "generate", "done", "error" or "panic"
    err,        \* the error the operation ended with
    calls,      \* the Graph functions called so far, in order
    store_calls,  \* per store query, how many times it was issued
    type_id,    \* per node of the map, the type_id field of its record
    types,      \* Graph.types: TypeId -> Type
    colors,     \* Graph.colors: TypeId -> Color
    url_template,  \* Graph.url_template, from the time Graph::generate reads it
    output,     \* the bag of statements written to the writer
    workers,    \* BatchOpt.workers
    commands,   \* BatchOpt.commands
    tasks,      \* per worker index, the state of its spawned task
    awaited,    \* the number of handlers BatchOpt::execute has awaited
    results,    \* the results vector of BatchOpt::execute
    printed,    \* the array written to stdout by BatchOpt::execute, if any
    exit,       \* "running", or how BatchOpt::execute returned: "ok" or "error"
    executed    \* per command index, the workers that called execute_with_store

vars ==
    <<events, rows, records, policy, discipline, origin, stack, nodes, edges, fetches,
      event_fetches, returned, pc, err,
      calls, store_calls, type_id, types, colors, url_template, output,
      workers, commands, tasks, awaited, results, printed, exit, executed>>

\* The state of `mlmdquery graph`.
graph_vars ==
    <<events, rows, records, policy, discipline, origin, stack, nodes, edges, fetches,
      event_fetches, returned, pc, err,
      calls, store_calls, type_id, types, colors, url_template, output>>

\* The state of `mlmdquery batch`.
batch_vars == <<workers, commands, tasks, awaited, results, printed, exit, executed>>

\* What the traversal asked the store about events, and what it got.
query_log == <<event_fetches, returned>>

\* The fields of the Graph that Graph::new computes.
graph_fields == <<type_id, types, colors>>

\* Option<T>: None, or Some(x).
None == <<>>
Some(x) == <<x>>

NoError == [kind |-> "None"]
NotFound(id) == [kind |-> "NotFound", node_kind |-> id.kind, id |-> id.id]
StoreError == [kind |-> "StoreError"]
TemplateError == [kind |-> "TemplateError"]

\* All sets of at most k elements of S.
RECURSIVE SubsetsUpTo(_, _)
SubsetsUpTo(S, k) ==
    IF k = 0 THEN {{}}
    ELSE LET F == SubsetsUpTo(S, k - 1)
         IN  F \cup {T \cup {x} : T \in F, x \in S}

Stores ==
    SubsetsUpTo(CoreEvent, MaxEvents) \cup {{ev} : ev \in Event}
        \cup {T \in Twins : \A a, b \in T : /\ a.artifact_id = b.artifact_id
                                            /\ a.execution_id = b.execution_id
                                            /\ a.ty = b.ty}

\* The Event table has no uniqueness constraint: the store can hold the same
\* event in several rows. Explored for stores of at most two distinct events,
\* one of which is held in up to MaxRows rows.
RowCounts(S) ==
    IF Cardinality(S) > 2 THEN {[ev \in S |-> 1]}
    ELSE {r \in [S -> 1..MaxRows] : Cardinality({ev \in S : r[ev] > 1}) <= 1}

\* All orders in which the store can return the events of a set.
Orders(S) ==
    {f \in [1..Cardinality(S) -> S] : \A i, j \in 1..Cardinality(S) : f[i] = f[j] => i = j}

\* The rows the store holds for the events of S.
Rows(S) == UNION {{<<ev, k>> : k \in 1..rows[ev]} : ev \in S}

\* All the answers of the store to a query that matches the events of S: one
\* entry per row, in any order.
Replies(S) == {[i \in DOMAIN g |-> g[i][1]] : g \in Orders(Rows(S))}

\* The worklist disciplines: the Vec of the commands is popped at its end; a
\* queue, the other discipline the algorithm allows, is popped at its front.
Disciplines == {"stack", "queue"}

\* stack.pop(): the last element is taken off (the first one, of a queue).
Top(s) == IF discipline = "queue" THEN s[1] ELSE s[Len(s)]

\* Mutant of Pop: the loop reads stack.last() and leaves the element on the stack.
PopPeek(s) == s

Pop(s) == IF discipline = "queue" THEN Tail(s) ELSE SubSeq(s, 1, Len(s) - 1)

\* Mutant of contains_key: only artifacts are remembered as visited.
contains_key_artifacts_only(id) == id \in DOMAIN nodes /\ id.kind = "Artifact"

\* Mutant of contains_key: the visited guard is missing.
contains_key_never(id) == FALSE

\* The `nodes.contains_key(&id)` guard of the loop.
contains_key(id) == id \in DOMAIN nodes

\* The events the store returns for get_events().artifact(id) / .execution(id).
events_of(id) ==
    IF id.kind = "Artifact" THEN {ev \in events : ev.artifact_id = id.id}
                            ELSE {ev \in events : ev.execution_id = id.id}

\* Mutant of get_edges_derived: the events are not filtered by type.
get_edges_derived_unfiltered(id) == events_of(id)

\* Mutant of get_edges_derived: an execution is not expanded.
get_edges_derived_one_hop(id) ==
    IF id.kind = "Artifact"
    THEN {ev \in events_of(id) : ev.ty \in {"Input", "DeclaredInput", "InternalInput"}}
    ELSE {}

\* derived.rs get_edges: input events of an artifact, output events of an execution.
get_edges_derived(id) ==
    IF id.kind = "Artifact"
    THEN {ev \in events_of(id) : ev.ty \in {"Input", "DeclaredInput", "InternalInput"}}
    ELSE {ev \in events_of(id) : ev.ty \in {"Output", "DeclaredOutput", "InternalOutput"}}

\* Mutant of get_edges_io: an artifact is expanded like an execution.
get_edges_io_recursive(id) == events_of(id)

\* Mutant of get_edges_io: only input and output events are kept.
get_edges_io_filtered(id) ==
    IF id.kind = "Artifact" THEN {}
    ELSE {ev \in events_of(id) : ev.ty # "Unknown"}

\* io.rs get_edges: nothing for an artifact, every event of an execution.
get_edges_io(id) ==
    IF id.kind = "Artifact" THEN {} ELSE events_of(id)

get_edges(id) ==
    IF policy = "derived" THEN get_edges_derived(id) ELSE get_edges_io(id)

\* Whether get_edges asks the store at all (io.rs answers for an artifact itself).
get_edges_queries(id) == policy = "derived" \/ id.kind = "Execution"

\* What `store.get_events()...execute().await?` of get_edges hands back, before
\* get_edges filters it: every row of every event of id.
store_reply(id) ==
    IF get_edges_queries(id)
    THEN [ev \in events_of(id) |-> rows[ev]]
    ELSE EmptyBag

\* Mutant of Pushes: only the endpoints of the last edge are pushed.
PushesLastOnly(f, n) ==
    IF n = 0 THEN <<>> ELSE <<from_node(f[n]), to_node(f[n])>>

\* Mutant of Pushes: only edge.to_node() is pushed.
RECURSIVE PushesToOnly(_, _)
PushesToOnly(f, n) ==
    IF n = 0 THEN <<>>
    ELSE PushesToOnly(f, n - 1) \o <<to_node(f[n])>>

\* Mutant of Pushes: only edge.from_node() is pushed.
RECURSIVE PushesFromOnly(_, _)
PushesFromOnly(f, n) ==
    IF n = 0 THEN <<>>
    ELSE PushesFromOnly(f, n - 1) \o <<from_node(f[n])>>

\* The pushes of the `for edge in get_edges(..)` loop, for the events in order f.
RECURSIVE Pushes(_, _)
Pushes(f, n) ==
    IF n = 0 THEN <<>>
    ELSE Pushes(f, n - 1) \o <<from_node(f[n]), to_node(f[n])>>

\* Mutant of edge_eq: two edges between the same nodes are taken to be equal.
edge_eq_endpoints(a, b) ==
    /\ a.artifact_id = b.artifact_id
    /\ a.execution_id = b.execution_id
    /\ a.ty = b.ty

\* Edge derives PartialEq, Eq and Hash over its event: every field counts.
edge_eq(a, b) ==
    /\ a.artifact_id = b.artifact_id
    /\ a.execution_id = b.execution_id
    /\ a.ty = b.ty
    /\ a.path = b.path
    /\ a.create_time = b.create_time

\* HashSet::insert: an edge equal to one already in the set is dropped.
insert(set, edge) ==
    IF \E x \in set : edge_eq(x, edge) THEN set ELSE set \cup {edge}

\* The `edges.insert(edge)` calls of the loop, for the events in order f.
RECURSIVE Inserts(_, _, _)
Inserts(set, f, n) ==
    IF n = 0 THEN set ELSE insert(Inserts(set, f, n - 1), f[n])

\* A graph command runs no batch.
BatchIdle ==
    /\ workers = 1
    /\ commands = <<>>
    /\ tasks = <<>>
    /\ awaited = 0
    /\ results = <<>>
    /\ printed = None
    /\ exit = "running"
    /\ executed = <<>>

\* `graph derived` starts from an artifact, `graph io` from an execution. Ids are
\* only ever compared for equality and Stores is closed under renaming them, so
\* the origin id is taken to be 1.
InitAs(d) ==
    /\ discipline = d
    /\ events \in Stores
    /\ rows \in RowCounts(events)
    /\ records = <<>>
    /\ policy \in {"derived", "io"}
    /\ origin = IF policy = "derived" THEN Artifact(1) ELSE Execution(1)
    /\ stack = <<origin>>
    /\ nodes = <<>>
    /\ edges = {}
    /\ fetches = [id \in NodeId |-> 0]
    /\ event_fetches = [id \in NodeId |-> 0]
    /\ returned = EmptyBag
    /\ pc = "traverse"
    /\ err = NoError
    /\ calls = <<>>
    /\ store_calls =
          [get_node |-> 0, get_events |-> 0, get_artifact_types |-> 0,
           get_execution_types |-> 0]
    /\ type_id = <<>>
    /\ types = <<>>
    /\ colors = <<>>
    /\ url_template = None
    /\ output = EmptyBag
    /\ BatchIdle

\* The commands keep the worklist in a Vec and pop its end.
Init == InitAs("stack")

\* Mutant of Fail: the error is noted and the operation carries on.
FailAndGoOn(e) ==
    /\ err' = e
    /\ UNCHANGED <<pc, stack, nodes, edges, type_id, types, colors>>

\* The operation returns Err(e): its locals are dropped.
Fail(e) ==
    /\ pc' = "error"
    /\ err' = e
    /\ stack' = <<>>
    /\ nodes' = <<>>
    /\ edges' = {}
    /\ type_id' = <<>>
    /\ types' = <<>>
    /\ colors' = <<>>

\* The store's answer to get_artifacts().id(..) / get_executions().id(..): the
\* number of records it holds for id, the same every time id is asked for.
Reveal(id, n) ==
    /\ id \in DOMAIN records => n = records[id]
    /\ records' = (id :> n) @@ records

\* Mutant of resolves: the check is `!is_empty()`, the first record is taken.
resolves_nonempty(n) == n >= 1

\* get_node's `ensure!(len == 1)` on the records the store returned.
resolves(n) == n = 1

\* One iteration of `while let Some(id) = stack.pop()` that hits the visited guard.
Skip ==
    /\ pc = "traverse"
    /\ stack # <<>>
    /\ contains_key(Top(stack))
    /\ stack' = Pop(stack)
    /\ UNCHANGED <<batch_vars, events, rows, records, policy, discipline, origin, nodes, edges, fetches, query_log, pc, err,
                   calls, store_calls, graph_fields, url_template, output>>

\* One iteration that fetches the node and its edges.
Visit ==
    /\ pc = "traverse"
    /\ stack # <<>>
    /\ LET id == Top(stack) IN
        /\ ~contains_key(id)
        /\ \E n \in 0..MaxRecords : resolves(n) /\ Reveal(id, n)
        /\ fetches' = [fetches EXCEPT ![id] = @ + 1]
        /\ event_fetches' =
              [event_fetches EXCEPT ![id] = IF get_edges_queries(id) THEN @ + 1 ELSE @]
        /\ returned' = returned (+) store_reply(id)
        /\ nodes' = (id :> Node(id)) @@ nodes
        /\ \E f \in Replies(get_edges(id)) :
              /\ stack' = Pop(stack) \o Pushes(f, Len(f))
              /\ edges' = Inserts(edges, f, Len(f))
        /\ store_calls' =
              [store_calls EXCEPT !.get_node = @ + 1,
                                  !.get_events = IF get_edges_queries(id) THEN @ + 1 ELSE @]
    /\ UNCHANGED <<batch_vars, events, rows, policy, discipline, origin, pc, err, calls, graph_fields,
                   url_template, output>>

\* get_node finds zero records, or more than one: `ensure!(len == 1)` fails.
VisitNotFound ==
    /\ pc = "traverse"
    /\ stack # <<>>
    /\ LET id == Top(stack) IN
        /\ ~contains_key(id)
        /\ \E n \in 0..MaxRecords : ~resolves(n) /\ Reveal(id, n)
        /\ fetches' = [fetches EXCEPT ![id] = @ + 1]
        /\ UNCHANGED query_log
        /\ Fail(NotFound(id))
    /\ store_calls' = [store_calls EXCEPT !.get_node = @ + 1]
    /\ UNCHANGED <<batch_vars, events, rows, policy, discipline, origin, calls, url_template, output>>

\* The store call of get_node fails.
VisitNodeStoreError ==
    /\ pc = "traverse"
    /\ stack # <<>>
    /\ LET id == Top(stack) IN
        /\ ~contains_key(id)
        /\ fetches' = [fetches EXCEPT ![id] = @ + 1]
        /\ UNCHANGED query_log
        /\ Fail(StoreError)
    /\ store_calls' = [store_calls EXCEPT !.get_node = @ + 1]
    /\ UNCHANGED <<batch_vars, events, rows, records, policy, discipline, origin, calls, url_template, output>>

\* get_node succeeds and the store call of get_edges fails.
VisitEdgesStoreError ==
    /\ pc = "traverse"
    /\ stack # <<>>
    /\ LET id == Top(stack) IN
        /\ ~contains_key(id)
        /\ get_edges_queries(id)
        /\ \E n \in 0..MaxRecords : resolves(n) /\ Reveal(id, n)
        /\ fetches' = [fetches EXCEPT ![id] = @ + 1]
        /\ event_fetches' = [event_fetches EXCEPT ![id] = @ + 1]
        /\ UNCHANGED returned
        /\ Fail(StoreError)
    /\ store_calls' = [store_calls EXCEPT !.get_node = @ + 1, !.get_events = @ + 1]
    /\ UNCHANGED <<batch_vars, events, rows, policy, discipline, origin, calls, url_template, output>>

\* mlmd ArtifactType / ExecutionType wrapped in Type: its kind and id (the name
\* of a type is told by the two).
Type(kind, id) == [kind |-> kind, id |-> id]

\* The type_id fields of the records of the node map, read first by Graph::new.
\* The code compares type ids for equality and order only, so an assignment is
\* explored up to an order-preserving renaming: its ids are 1..k for some k.
\* Every such assignment is explored for stores of at most MaxTypedEvents
\* events; the records of a larger store carry type 1 (artifacts) and type 2
\* (executions).
TypeAssignments ==
    IF Cardinality(events) <= MaxTypedEvents
    THEN {t \in [DOMAIN nodes -> TypeIds] :
            \E k \in TypeIds : {t[id] : id \in DOMAIN nodes} = 1..k}
    ELSE {[id \in DOMAIN nodes |-> IF id.kind = "Artifact" THEN 1 ELSE 2]}

\* Mutant of requested_types: only the type of the origin is asked for.
requested_types_of_origin(t, kind) ==
    {Type(kind, t[id]) : id \in {n \in DOMAIN t : n.kind = kind /\ n = origin}}

\* The types the store holds for the ids Graph::new asks for: one type per
\* distinct type_id of the nodes of the kind.
requested_types(t, kind) ==
    {Type(kind, t[id]) : id \in {n \in DOMAIN t : n.kind = kind}}

\* BTreeMap::extend with the types in the order f: a type whose id is already a
\* key replaces the entry.
RECURSIVE extend(_, _, _)
extend(map, f, n) ==
    IF n = 0 THEN map
    ELSE LET m == extend(map, f, n - 1)
         IN  [id \in DOMAIN m \cup {f[n].id} |-> IF id = f[n].id THEN f[n] ELSE m[id]]

\* Graph.types for the artifact types returned in order fa and the execution
\* types returned in order fe.
types_of(fa, fe) == extend(extend(<<>>, fa, Len(fa)), fe, Len(fe))

artifact_type_count(fa) == Cardinality(DOMAIN extend(<<>>, fa, Len(fa)))

execution_type_count(fa, fe) ==
    Cardinality(DOMAIN types_of(fa, fe)) - artifact_type_count(fa)

\* Mutant of ascending: the keys are walked from the largest to the smallest.
RECURSIVE descending(_)
descending(S) ==
    IF S = {} THEN <<>>
    ELSE LET m == CHOOSE x \in S : \A y \in S : x >= y
         IN  <<m>> \o descending(S \ {m})

\* The iteration order of a BTreeMap: ascending keys.
RECURSIVE ascending(_)
ascending(S) ==
    IF S = {} THEN <<>>
    ELSE LET m == CHOOSE x \in S : \A y \in S : x <= y
         IN  <<m>> \o ascending(S \ {m})

\* The keys of a type map whose entry is of the kind, in iteration order.
ids_of_kind(map, kind) == ascending({id \in DOMAIN map : map[id].kind = kind})

\* Mutant of kind_ids: the ids come in the order the store returned the types.
kind_ids_as_returned(fa, fe, kind) ==
    IF kind = "Artifact" THEN [i \in 1..Len(fa) |-> fa[i].id]
                         ELSE [i \in 1..Len(fe) |-> fe[i].id]

\* `types.iter().filter_map(..)` of the colour assignment.
kind_ids(fa, fe, kind) == ids_of_kind(types_of(fa, fe), kind)

RECURSIVE GCD(_, _)
GCD(a, b) == IF b = 0 THEN a ELSE GCD(b, a % b)

\* The i-th (from 0) of n evenly spaced stops of the gradient from white to
\* mid-gray: its position between the two ends, as a reduced fraction.
stop(i, n) ==
    IF n = 1 THEN <<0, 1>>
    ELSE <<i \div GCD(i, n - 1), (n - 1) \div GCD(i, n - 1)>>

\* gradient.take(n)
take(n) == [i \in 1..n |-> stop(i - 1, n)]

Min(a, b) == IF a <= b THEN a ELSE b

\* ids.zip(stops) collected into a map: the shorter of the two ends the pairs.
zip(ids, stops) ==
    [id \in {ids[i] : i \in 1..Min(Len(ids), Len(stops))} |->
        stops[CHOOSE i \in 1..Min(Len(ids), Len(stops)) : ids[i] = id]]

\* Graph.colors: the artifact type ids zipped with artifact_type_count stops,
\* chained with the execution type ids zipped with execution_type_count stops.
colors_of(fa, fe) ==
    zip(kind_ids(fa, fe, "Execution"), take(execution_type_count(fa, fe)))
        @@ zip(kind_ids(fa, fe, "Artifact"), take(artifact_type_count(fa)))

\* The --url-template option, read by Graph::generate: none, or a template
\* given as its pieces. "{" is an
\* unclosed brace, "{foo}" names a value the context does not have.
UrlTemplates ==
    {None, Some(<<"{node_type}", "/", "{id}">>), Some(<<"{foo}">>), Some(<<"{">>)}

\* tt.add_template("url", x) succeeds.
compiles(text) == \A i \in 1..Len(text) : text[i] # "{"

\* tt.render("url", &context) succeeds: the context has node_type and id.
renders(text) == \A i \in 1..Len(text) : text[i] # "{foo}"

\* tt.render("url", &context) for the context of the node.
render(text, node) ==
    [i \in 1..Len(text) |->
        CASE text[i] = "{node_type}" ->
                 (IF node.kind = "Artifact" THEN "artifact" ELSE "execution")
          [] text[i] = "{id}" -> ToString(node.id)
          [] OTHER -> text[i]]

\* The nodes of the node map of a kind.
nodes_of(kind) == {id \in DOMAIN nodes : id.kind = kind}

\* Mutant of type_queries: the type of each node is asked for by a query of its
\* own.
type_queries_per_node(n) ==
    [store_calls EXCEPT
        !.get_artifact_types = @ + Cardinality(nodes_of("Artifact")),
        !.get_execution_types =
            @ + (IF n = 2 THEN Cardinality(nodes_of("Execution")) ELSE 0)]

\* The store calls of Graph::new up to its n-th type query: one query for the
\* types of all artifact nodes, then one for the types of all execution nodes.
type_queries(n) ==
    [store_calls EXCEPT !.get_artifact_types = @ + 1,
                        !.get_execution_types = @ + (IF n = 2 THEN 1 ELSE 0)]

\* The worklist is empty: Graph::new makes its two type queries and assigns
\* the colours.
GraphNew ==
    /\ pc = "traverse"
    /\ stack = <<>>
    /\ \E t \in TypeAssignments :
          /\ type_id' = t
          /\ \E fa \in Orders(requested_types(t, "Artifact")),
                fe \in Orders(requested_types(t, "Execution")) :
                /\ types' = types_of(fa, fe)
                /\ colors' = colors_of(fa, fe)
    /\ store_calls' = type_queries(2)
    /\ calls' = Append(calls, "new")
    /\ pc' = "generate"
    /\ UNCHANGED <<batch_vars, events, rows, records, policy, discipline, origin, stack, nodes, edges, fetches, query_log, err,
                   url_template, output>>

\* One of the two type queries of Graph::new fails: the first, or the second
\* after the first returned.
GraphNewStoreError ==
    /\ pc = "traverse"
    /\ stack = <<>>
    /\ \E n \in 1..2 : store_calls' = type_queries(n)
    /\ calls' = Append(calls, "new")
    /\ Fail(StoreError)
    /\ UNCHANGED <<batch_vars, events, rows, records, policy, discipline, origin, fetches, query_log, url_template, output>>

\* tt.add_template("url", x) returns an error.
compile_fails(template) == template # None /\ ~compiles(template[1])

\* Mutant of style: the numeric id alone is compared with the origin's.
style_by_number(node) ==
    IF node.id = origin.id THEN "bold,dashed,filled" ELSE "solid,filled"

\* Node::style
style(node) ==
    IF NodeIdOf(node) = origin THEN "bold,dashed,filled" ELSE "solid,filled"

\* Mutant of url: the context is filled from the origin.
url_of_origin(node, template) ==
    IF template = None THEN <<>> ELSE render(template[1], nodes[origin])

\* Node::url: the empty string without a template.
url(node, template) ==
    IF template = None THEN <<>> ELSE render(template[1], node)

\* Mutant of render_fails: a failed rendering is taken for an empty URL.
render_fails_never(node, template) == FALSE

\* Node::url returns the error of tt.render.
render_fails(node, template) == template # None /\ ~renders(template[1])

\* The lookups types[&type_id] of Node::tooltip and colors[&type_id] of
\* Node::color panic on a missing key.
node_panics(id) == type_id[id] \notin DOMAIN types \/ type_id[id] \notin DOMAIN colors

\* The lookups self.nodes[&edge.from_node()] and self.nodes[&edge.to_node()].
edge_panics(edge) == from_node(edge) \notin DOMAIN nodes \/ to_node(edge) \notin DOMAIN nodes

\* The label of an edge: empty for an empty path, else the JSON list of the steps.
label(edge) ==
    IF edge.path = <<>> THEN <<>>
    ELSE <<"[">> \o [i \in 1..Len(edge.path) |-> ToString(edge.path[i])] \o <<"]">>

NodeStatement(id, template) ==
    [stmt |-> "node", id |-> NodeIdOf(nodes[id]), style |-> style(nodes[id]),
     tooltip |-> types[type_id[id]], fillcolor |-> colors[type_id[id]],
     url |-> url(nodes[id], template)]

\* Mutant of EdgeStatement: the statement goes from to_node() to from_node().
EdgeStatementReversed(edge) ==
    [stmt |-> "edge", from |-> NodeIdOf(nodes[to_node(edge)]),
     to |-> NodeIdOf(nodes[from_node(edge)]), label |-> label(edge)]

EdgeStatement(edge) ==
    [stmt |-> "edge", from |-> NodeIdOf(nodes[from_node(edge)]),
     to |-> NodeIdOf(nodes[to_node(edge)]), label |-> label(edge)]

\* The bag of the node statements written for the nodes of W.
NodeStatements(W, template) ==
    [s \in {NodeStatement(x, template) : x \in W} |->
        Cardinality({x \in W : NodeStatement(x, template) = s})]

\* The bag of the edge statements written for the edges of W: edges of the same
\* ends and label give the same line, written once per edge.
EdgeStatements(W) ==
    [s \in {EdgeStatement(x) : x \in W} |-> Cardinality({x \in W : EdgeStatement(x) = s})]

\* Mutant of legend_ids: every type of the map is listed in both legends.
legend_ids_any_kind(kind) == ascending(DOMAIN types)

\* The entries of a legend, in the order they are written.
legend_ids(kind) == ids_of_kind(types, kind)

\* How many entries of a legend are written before the lookup
\* self.colors[&ty.id()] hits a missing key (all of them if none does).
legend_written(kind) ==
    LET ids == legend_ids(kind)
        missing == {i \in 1..Len(ids) : ids[i] \notin DOMAIN colors}
    IN  IF missing = {} THEN Len(ids)
        ELSE (CHOOSE i \in missing : \A j \in missing : i <= j) - 1

legend_panics(kind) == legend_written(kind) < Len(legend_ids(kind))

\* Mutant of LegendEntry: every entry is filled with the first stop.
LegendEntryFirstStop(kind, id) ==
    [stmt |-> "legend", legend |-> kind, type |-> types[id], fillcolor |-> stop(0, 1)]

LegendEntry(kind, id) ==
    [stmt |-> "legend", legend |-> kind, type |-> types[id], fillcolor |-> colors[id]]

\* The invisible edge from the entry written just before to the entry.
LegendChain(kind, prev, id) ==
    [stmt |-> "chain", legend |-> kind, from |-> types[prev], to |-> types[id]]

\* The statements of a legend: the subgraph line, an entry per type of the kind
\* and, from the second entry on, the chaining edge from the previous entry.
LegendStatements(kind) ==
    LET ids == legend_ids(kind)
        n == legend_written(kind)
    IN  {[stmt |-> "subgraph", legend |-> kind]}
            \cup {LegendEntry(kind, ids[i]) : i \in 1..n}
            \cup {LegendChain(kind, ids[i - 1], ids[i]) : i \in 2..n}

Header == SetToBag({[stmt |-> "digraph"]})
Footer == SetToBag({[stmt |-> "end"]})

\* Graph::generate with a template that compiles, if there is one: the header,
\* the node statements, the edge statements, the two legends, the closing
\* brace. A lookup of a missing key panics after the statements written so far
\* (the maps are walked in any order).
Generate ==
    /\ pc = "generate"
    /\ \E template \in UrlTemplates :
          /\ ~compile_fails(template)
          /\ (\E id \in DOMAIN nodes : render_fails(nodes[id], template))
                => (\E id \in DOMAIN nodes : node_panics(id))
          /\ url_template' = template
          /\ IF \E id \in DOMAIN nodes : node_panics(id)
             THEN /\ \E W \in SUBSET {id \in DOMAIN nodes :
                                          /\ ~node_panics(id)
                                          /\ ~render_fails(nodes[id], template)} :
                        output' = Header (+) NodeStatements(W, template)
                  /\ pc' = "panic"
             ELSE IF \E edge \in edges : edge_panics(edge)
             THEN /\ \E W \in SUBSET {edge \in edges : ~edge_panics(edge)} :
                        output' = Header (+) NodeStatements(DOMAIN nodes, template)
                                         (+) EdgeStatements(W)
                  /\ pc' = "panic"
             ELSE IF legend_panics("Artifact")
             THEN /\ output' = Header (+) NodeStatements(DOMAIN nodes, template)
                                      (+) EdgeStatements(edges)
                                      (+) SetToBag(LegendStatements("Artifact"))
                  /\ pc' = "panic"
             ELSE /\ output' = Header (+) NodeStatements(DOMAIN nodes, template)
                                      (+) EdgeStatements(edges)
                                      (+) SetToBag(LegendStatements("Artifact"))
                                      (+) SetToBag(LegendStatements("Execution"))
                                      (+) (IF legend_panics("Execution") THEN EmptyBag
                                                                          ELSE Footer)
                  /\ pc' = IF legend_panics("Execution") THEN "panic" ELSE "done"
    /\ calls' = Append(calls, "generate")
    /\ UNCHANGED <<batch_vars, events, rows, records, policy, discipline, origin, stack, nodes, edges, fetches, query_log, err,
                   store_calls, graph_fields>>

\* The URL template does not compile: generate returns before writing anything.
GenerateCompileError ==
    /\ pc = "generate"
    /\ \E template \in UrlTemplates :
          /\ compile_fails(template)
          /\ url_template' = template
    /\ calls' = Append(calls, "generate")
    /\ Fail(TemplateError)
    /\ UNCHANGED <<batch_vars, events, rows, records, policy, discipline, origin, fetches, query_log, store_calls, output>>

\* The template compiles and the rendering fails for the first node that is
\* written: the header went to the writer before.
GenerateRenderError ==
    /\ pc = "generate"
    /\ \E template \in UrlTemplates :
          /\ ~compile_fails(template)
          /\ \E id \in DOMAIN nodes : ~node_panics(id) /\ render_fails(nodes[id], template)
          /\ url_template' = template
    /\ output' = Header
    /\ calls' = Append(calls, "generate")
    /\ Fail(TemplateError)
    /\ UNCHANGED <<batch_vars, events, rows, records, policy, discipline, origin, fetches, query_log, store_calls>>

Next ==
    \/ Skip
    \/ Visit
    \/ VisitNotFound
    \/ VisitNodeStoreError
    \/ VisitEdgesStoreError
    \/ GraphNew
    \/ GraphNewStoreError
    \/ Generate
    \/ GenerateCompileError
    \/ GenerateRenderError

Spec == Init /\ [][Next]_vars

\* The steps of the traversal loop.
Traverse ==
    Skip \/ Visit \/ VisitNotFound \/ VisitNodeStoreError \/ VisitEdgesStoreError

\* The runs over the stores that are explored with one type assignment.
TraversalInit == Init /\ Cardinality(events) > MaxTypedEvents

\* The loop runs to completion: no await is left pending forever.
FairSpec == TraversalInit /\ [][Next]_vars /\ WF_vars(Traverse)

\* The runs over the stores whose records are explored with every type id.
RenderInit == Init /\ Cardinality(events) <= MaxTypedEvents

RenderSpec == RenderInit /\ [][Next]_vars

\* The traversal under either worklist discipline, over the stores whose nodes
\* have several events to return.
AnyOrderInit ==
    \E d \in Disciplines : InitAs(d) /\ Cardinality(events) > MaxTypedEvents

AnyOrderSpec == AnyOrderInit /\ [][Next]_vars

\* ------------------------------------------------------------ mlmdquery batch
\* The batchable commands, told apart by what they ask for.
Commands == {"count", "get"}

\* BatchableOpt::execute_with_store when it succeeds: the JSON value of the
\* answer to the command.
execute_with_store(command) == [answer_to |-> command]

\* Mutant of commands_of: the commands are dealt out in blocks, not round robin.
commands_of_blocks(i) ==
    SelectSeq([j \in 1..Len(commands) |-> <<j - 1, commands[j]>>],
              LAMBDA p : p[1] \div workers = i)

\* The commands of worker i with their indices: those with j % workers == i, in
\* the order given.
commands_of(i) ==
    SelectSeq([j \in 1..Len(commands) |-> <<j - 1, commands[j]>>],
              LAMBDA p : p[1] % workers = i)

\* Mutant of sort_by_key: the results stay in the order the workers gave them.
unsorted(s) == s

\* results.sort_by_key(|x| x.0): a stable sort by the command index.
RECURSIVE sort_by_key(_)
sort_by_key(s) ==
    IF s = <<>> THEN <<>>
    ELSE LET m == CHOOSE k \in 1..Len(s) :
                      \A l \in 1..Len(s) :
                          s[k][1] < s[l][1] \/ (s[k][1] = s[l][1] /\ k <= l)
         IN  <<s[m]>> \o sort_by_key(SubSeq(s, 1, m - 1) \o SubSeq(s, m + 1, Len(s)))

\* results.into_iter().map(|x| x.1).collect()
values(s) == [k \in 1..Len(s) |-> s[k][2]]

\* Mutant of handler_ok: a task that ended is taken to have succeeded.
handler_ended(task) == task.pc \in {"ok", "failed"}

\* `handler.await??` yields the results of the task.
handler_ok(task) == task.pc = "ok"

\* A batch command runs no graph traversal.
GraphIdle ==
    /\ discipline = "stack"
    /\ events = {}
    /\ rows = <<>>
    /\ records = <<>>
    /\ policy = "derived"
    /\ origin = Artifact(1)
    /\ stack = <<>>
    /\ nodes = <<>>
    /\ edges = {}
    /\ fetches = [id \in NodeId |-> 0]
    /\ event_fetches = [id \in NodeId |-> 0]
    /\ returned = EmptyBag
    /\ pc = "batch"
    /\ err = NoError
    /\ calls = <<>>
    /\ store_calls =
          [get_node |-> 0, get_events |-> 0, get_artifact_types |-> 0,
           get_execution_types |-> 0]
    /\ type_id = <<>>
    /\ types = <<>>
    /\ colors = <<>>
    /\ url_template = None
    /\ output = EmptyBag

\* BatchOpt::execute after it spawned one task per worker index 0..workers-1,
\* each with its share of the commands.
BatchInit ==
    /\ GraphIdle
    /\ workers \in 1..MaxWorkers
    /\ commands \in UNION {[1..n -> Commands] : n \in 0..MaxCommands}
    /\ tasks = [i \in 0..(workers - 1) |->
                  [pc |-> "spawned", commands |-> commands_of(i), results |-> <<>>]]
    /\ awaited = 0
    /\ results = <<>>
    /\ printed = None
    /\ exit = "running"
    /\ executed = [j \in 0..(Len(commands) - 1) |-> <<>>]

\* The task of worker i connects to the store; with no command it returns its
\* empty results at once.
Connect ==
    \E i \in DOMAIN tasks :
        /\ tasks[i].pc = "spawned"
        /\ tasks' = [tasks EXCEPT ![i].pc = IF tasks[i].commands = <<>> THEN "ok"
                                                                        ELSE "running"]
        /\ UNCHANGED <<workers, commands, awaited, results, printed, exit, executed>>
        /\ UNCHANGED graph_vars

\* MetadataStore::connect fails: the task returns the error.
ConnectError ==
    \E i \in DOMAIN tasks :
        /\ tasks[i].pc = "spawned"
        /\ tasks' = [tasks EXCEPT ![i].pc = "failed"]
        /\ UNCHANGED <<workers, commands, awaited, results, printed, exit, executed>>
        /\ UNCHANGED graph_vars

\* The task of worker i executes its next command and keeps the result; after
\* its last command it returns its results.
Execute ==
    \E i \in DOMAIN tasks :
        /\ tasks[i].pc = "running"
        /\ LET j == Head(tasks[i].commands)[1]
               command == Head(tasks[i].commands)[2]
           IN  /\ tasks' = [tasks EXCEPT
                              ![i].commands = Tail(@),
                              ![i].results = Append(@, <<j, execute_with_store(command)>>),
                              ![i].pc = IF Tail(tasks[i].commands) = <<>> THEN "ok"
                                                                          ELSE "running"]
               /\ executed' = [executed EXCEPT ![j] = Append(@, i)]
        /\ UNCHANGED <<workers, commands, awaited, results, printed, exit>>
        /\ UNCHANGED graph_vars

\* The next command of worker i fails: the task returns the error, with its
\* other commands not executed.
ExecuteError ==
    \E i \in DOMAIN tasks :
        /\ tasks[i].pc = "running"
        /\ LET j == Head(tasks[i].commands)[1]
           IN  executed' = [executed EXCEPT ![j] = Append(@, i)]
        /\ tasks' = [tasks EXCEPT ![i].pc = "failed"]
        /\ UNCHANGED <<workers, commands, awaited, results, printed, exit>>
        /\ UNCHANGED graph_vars

\* `results.extend(handler.await??)` for the next handler, whose task succeeded.
Await ==
    /\ exit = "running"
    /\ awaited < workers
    /\ handler_ok(tasks[awaited])
    /\ results' = results \o tasks[awaited].results
    /\ awaited' = awaited + 1
    /\ UNCHANGED <<workers, commands, tasks, printed, exit, executed>>
    /\ UNCHANGED graph_vars

\* The task of the next handler returned an error: `??` returns it, the results
\* gathered so far are dropped.
AwaitError ==
    /\ exit = "running"
    /\ awaited < workers
    /\ tasks[awaited].pc \in {"ok", "failed"}
    /\ ~handler_ok(tasks[awaited])
    /\ results' = <<>>
    /\ exit' = "error"
    /\ UNCHANGED <<workers, commands, tasks, awaited, printed, executed>>
    /\ UNCHANGED graph_vars

\* Every handler was awaited: the results are sorted by command index and
\* written as one array.
PrintResults ==
    /\ exit = "running"
    /\ awaited = workers
    /\ printed' = Some(values(sort_by_key(results)))
    /\ exit' = "ok"
    /\ UNCHANGED <<workers, commands, tasks, awaited, results, executed>>
    /\ UNCHANGED graph_vars

\* The steps of the worker tasks and of BatchOpt::execute, in any interleaving.
\* A task still running when execute has returned an error may go on until the
\* runtime is shut down.
BatchNext ==
    \/ Connect
    \/ ConnectError
    \/ Execute
    \/ ExecuteError
    \/ Await
    \/ AwaitError
    \/ PrintResults

BatchSpec == BatchInit /\ [][BatchNext]_vars

\* The runtime runs every spawned task and the awaiting main task.
BatchFairSpec == BatchInit /\ [][BatchNext]_vars /\ WF_vars(BatchNext)

\* ------------------------------------------------------------------ claims
Success == pc \in {"generate", "done"} \/ (pc = "traverse" /\ stack = <<>>)

InputClass == {"Input", "DeclaredInput", "InternalInput"}
OutputClass == {"Output", "DeclaredOutput", "InternalOutput"}

\* C1: under fair stepping the traversal loop of both graph commands ends: the
\* worklist becomes empty or the operation has ended with an error, also when
\* the lineage has a cycle.
C1_TraversalTerminates == <>(stack = <<>> \/ pc = "error")

\* A cyclic lineage (artifact -> execution -> the same artifact) was traversed
\* to the end.
C1_Witness ==
    /\ policy = "derived"
    /\ pc = "generate"
    /\ \E a \in ArtifactIds, e \in ExecutionIds :
          /\ EventOf(a, e, "Input") \in edges
          /\ EventOf(a, e, "Output") \in edges
          /\ origin = Artifact(a)

\* C2: when a traversal has finished successfully, both endpoints of every edge
\* of the edge set are keys of the node map, so Graph::generate never looks up
\* a missing node.
C2_Completeness ==
    /\ Success =>
          \A edge \in edges :
              from_node(edge) \in DOMAIN nodes /\ to_node(edge) \in DOMAIN nodes
    /\ pc = "panic" => \A edge \in edges : ~edge_panics(edge)

\* A document with at least two edges was generated.
C2_Witness ==
    /\ pc = "done"
    /\ Cardinality(edges) >= 2
    /\ Cardinality(DOMAIN nodes) >= 3

\* C3: the node map holds one entry per NodeId (kind and id): a NodeId is
\* fetched and inserted at most once however often it is reached, every entry
\* is stored under the NodeId of its own record, and Artifact(n) and
\* Execution(n) are distinct entries.
C3_OneEntryPerNodeId ==
    /\ \A id \in NodeId : fetches[id] <= 1
    /\ pc # "error" => \A id \in NodeId : (id \in DOMAIN nodes <=> fetches[id] = 1)
    /\ \A id \in DOMAIN nodes : NodeIdOf(nodes[id]) = id
    /\ \A n \in ArtifactIds \cap ExecutionIds :
          {Artifact(n), Execution(n)} \subseteq DOMAIN nodes
              => nodes[Artifact(n)] # nodes[Execution(n)]

\* Artifact(n) and Execution(n) are both in the node map and a NodeId already
\* in the map is on top of the worklist again.
C3_Witness ==
    /\ pc = "traverse"
    /\ stack # <<>>
    /\ Top(stack) \in DOMAIN nodes
    /\ \E n \in ArtifactIds \cap ExecutionIds :
          {Artifact(n), Execution(n)} \subseteq DOMAIN nodes

\* C4: an edge of an input-class event goes from Artifact(artifact_id) to
\* Execution(execution_id), an edge of an output-class event from
\* Execution(execution_id) to Artifact(artifact_id), and the two ends of an
\* edge are of different kinds.
C4_EdgeDirectionLaw ==
    \A edge \in edges :
        /\ edge.ty \in InputClass =>
              /\ from_node(edge) = Artifact(edge.artifact_id)
              /\ to_node(edge) = Execution(edge.execution_id)
        /\ edge.ty \in OutputClass =>
              /\ from_node(edge) = Execution(edge.execution_id)
              /\ to_node(edge) = Artifact(edge.artifact_id)
        /\ from_node(edge).kind # to_node(edge).kind

\* The edge set holds an input-class and an output-class edge.
C4_Witness ==
    /\ \E edge \in edges : edge.ty \in InputClass
    /\ \E edge \in edges : edge.ty \in OutputClass

\* C5 (as claimed): no event of type Unknown is ever in the edge set, under
\* either policy.
C5_NoUnknownEdge == \A edge \in edges : edge.ty # "Unknown"

\* C6 (as claimed): a finished lineage traversal holds the upstream of the
\* origin: every execution that outputs the origin artifact.
C6_UpstreamIncluded ==
    (policy = "derived" /\ Success) =>
        \A ev \in events :
            (ev.ty \in OutputClass /\ Artifact(ev.artifact_id) = origin)
                => Execution(ev.execution_id) \in DOMAIN nodes

\* C6 (amended): the lineage policy recurses downstream only. A finished
\* traversal holds, for every artifact in the map, the executions that take it
\* as input, and for every execution in the map, the artifacts it outputs; and
\* every node other than the origin is the head of a kept edge whose tail is in
\* the map, so an execution that only outputs the origin is not in the map.
C6_DownstreamOnly ==
    (policy = "derived" /\ Success) =>
        /\ \A ev \in events :
              /\ (ev.ty \in InputClass /\ Artifact(ev.artifact_id) \in DOMAIN nodes)
                    => Execution(ev.execution_id) \in DOMAIN nodes
              /\ (ev.ty \in OutputClass /\ Execution(ev.execution_id) \in DOMAIN nodes)
                    => Artifact(ev.artifact_id) \in DOMAIN nodes
        /\ \A id \in DOMAIN nodes \ {origin} :
              \E edge \in edges :
                  /\ edge.ty \in InputClass \cup OutputClass
                  /\ to_node(edge) = id
                  /\ from_node(edge) \in DOMAIN nodes
        /\ \A ev \in events :
              (/\ ev.ty \in OutputClass
               /\ Artifact(ev.artifact_id) = origin
               /\ ~\E in \in events :
                      /\ in.ty \in InputClass
                      /\ in.execution_id = ev.execution_id)
                  => Execution(ev.execution_id) \notin DOMAIN nodes

\* The traversal went two hops downstream and left out an execution that
\* outputs the origin.
C6_Witness ==
    /\ policy = "derived"
    /\ pc = "done"
    /\ Cardinality(DOMAIN nodes) >= 3
    /\ \E ev \in events :
          /\ ev.ty \in OutputClass
          /\ Artifact(ev.artifact_id) = origin
          /\ Execution(ev.execution_id) \notin DOMAIN nodes

\* The nodes one step downstream of a set S of nodes: the executions of the
\* input-class events of its artifacts, the artifacts of the output-class
\* events of its executions.
Downstream(S) ==
    {Execution(ev.execution_id) :
        ev \in {x \in events : x.ty \in InputClass /\ Artifact(x.artifact_id) \in S}}
    \cup
    {Artifact(ev.artifact_id) :
        ev \in {x \in events : x.ty \in OutputClass /\ Execution(x.execution_id) \in S}}

RECURSIVE Closure(_)
Closure(S) == IF Downstream(S) \subseteq S THEN S ELSE Closure(S \cup Downstream(S))

\* C7: the node set of a finished lineage traversal is exactly the closure of
\* the origin under the two adjacency rules, to any depth.
C7_LineageClosure ==
    (policy = "derived" /\ Success) => DOMAIN nodes = Closure({origin})

\* A chain artifact -> execution -> artifact -> execution was followed to its
\* second execution.
C7_Witness ==
    /\ policy = "derived"
    /\ pc = "done"
    /\ \E a1, a2 \in ArtifactIds, e1, e2 \in ExecutionIds :
          /\ a1 # a2 /\ e1 # e2
          /\ origin = Artifact(a1)
          /\ events = {EventOf(a1, e1, "Input"),
                       EventOf(a2, e1, "Output"),
                       EventOf(a2, e2, "Input")}
          /\ Execution(e2) \in DOMAIN nodes

\* C8: under the I/O policy the origin is the only execution ever fetched or
\* inserted, and it is in the node map of every finished traversal.
C8_IoOnlyOriginExecution ==
    policy = "io" =>
        /\ \A id \in NodeId :
              (id.kind = "Execution" /\ id # origin)
                  => (id \notin DOMAIN nodes /\ fetches[id] = 0)
        /\ Success => origin \in DOMAIN nodes

\* An artifact of the origin execution is also linked to another execution.
C8_Witness ==
    /\ policy = "io"
    /\ pc = "done"
    /\ \E ev \in events, other \in events :
          /\ ev.execution_id = origin.id
          /\ other.artifact_id = ev.artifact_id
          /\ other.execution_id # origin.id
          /\ Artifact(ev.artifact_id) \in DOMAIN nodes

\* The events the store returns for the origin execution.
OriginEvents == {ev \in events : ev.execution_id = origin.id}

\* C9: under the I/O policy the result is the one-hop neighbourhood of the
\* origin: the edge set of a finished traversal is the set of events the store
\* returns for the origin, its artifact nodes are the artifacts of those
\* events, and the iteration that expands an artifact adds no edge and pushes
\* nothing.
C9_IoOneHop ==
    /\ [](policy = "io" =>
            /\ edges \subseteq OriginEvents
            /\ Success =>
                  /\ edges = OriginEvents
                  /\ {id \in DOMAIN nodes : id.kind = "Artifact"}
                        = {Artifact(ev.artifact_id) : ev \in OriginEvents})
    /\ [][(/\ policy = "io"
           /\ pc = "traverse"
           /\ stack # <<>>
           /\ Top(stack).kind = "Artifact"
           /\ pc' = "traverse")
              => (edges' = edges /\ stack' = Pop(stack))]_vars

\* An I/O traversal finished with two artifacts around the origin, one of them
\* also linked to another execution.
C9_Witness ==
    /\ policy = "io"
    /\ pc = "done"
    /\ Cardinality(edges) >= 2
    /\ Cardinality({id \in DOMAIN nodes : id.kind = "Artifact"}) >= 2
    /\ OriginEvents # events

\* C10: an id that does not resolve to exactly one record ends the operation
\* with the not-found error naming its kind and id, before Graph::new or
\* Graph::generate is called and with nothing written.
C10_NotFoundIsFatal ==
    /\ \A id \in DOMAIN records :
          records[id] # 1 =>
              /\ pc = "error"
              /\ err = NotFound(id)
              /\ calls = <<>>
              /\ output = EmptyBag
    /\ err.kind = "NotFound" =>
          /\ [kind |-> err.node_kind, id |-> err.id] \in DOMAIN records
          /\ records[[kind |-> err.node_kind, id |-> err.id]] # 1
          /\ pc = "error"

\* An id met during the traversal, not the origin, resolved to more than one
\* record.
C10_Witness ==
    /\ pc = "error"
    /\ err.kind = "NotFound"
    /\ [kind |-> err.node_kind, id |-> err.id] # origin
    /\ records[[kind |-> err.node_kind, id |-> err.id]] > 1

\* The statements of a kind in the output, and how many of them were written.
Statements(kind) == {s \in DOMAIN output : s.stmt = kind}

RECURSIVE Written(_)
Written(S) ==
    IF S = {} THEN 0
    ELSE LET s == CHOOSE x \in S : TRUE
         IN  output[s] + Written(S \ {s})

\* C11: no partial document is emitted: whenever a graph operation has ended
\* with an error, of any kind, the writer has received nothing.
C11_NoPartialDocument == pc = "error" => output = EmptyBag

\* C12: a failed store call (node fetch, event fetch, either type query) ends
\* the operation with that error: Graph::generate is not invoked, nothing is
\* written, and from then on no store call is made, the failed one included.
C12_StoreErrorIsFatal ==
    /\ [](err = StoreError =>
            /\ pc = "error"
            /\ \A i \in 1..Len(calls) : calls[i] # "generate"
            /\ output = EmptyBag)
    /\ [][err = StoreError => UNCHANGED <<store_calls, fetches, calls>>]_vars

\* The execution-type query failed, after the traversal and the artifact-type
\* query went through.
C12_Witness ==
    /\ err = StoreError
    /\ store_calls.get_events >= 1
    /\ store_calls.get_artifact_types = 1
    /\ store_calls.get_execution_types = 1

\* C13: with a URL template that does not compile, or that does not render for
\* a node, Graph::generate never succeeds and never writes a node statement: it
\* returns the template error (unless a lookup of the node panicked first).
C13_TemplateFailureIsFatal ==
    (/\ \E i \in 1..Len(calls) : calls[i] = "generate"
     /\ url_template # None
     /\ ~compiles(url_template[1]) \/ ~renders(url_template[1]))
        => /\ pc \in {"error", "panic"}
           /\ pc = "error" => err = TemplateError
           /\ pc = "panic" => \E id \in DOMAIN nodes : node_panics(id)
           /\ Statements("node") = {}

\* A template that compiles failed to render in a graph of several nodes.
C13_Witness ==
    /\ pc = "error"
    /\ err = TemplateError
    /\ url_template # None
    /\ compiles(url_template[1])
    /\ ~renders(url_template[1])
    /\ store_calls.get_node >= 2

\* C14: a finished document has exactly one node statement per entry of the
\* node map and one edge statement per entry of the edge set, going from the
\* edge's from_node() to its to_node(). With origin artifact 1 and an Output
\* and an Input event between artifact 1 and one execution: 2 node statements,
\* 2 edge statements, one entry in each legend.
C14_OneStatementPerNodeAndEdge ==
    pc = "done" =>
        /\ Written(Statements("node")) = Cardinality(DOMAIN nodes)
        /\ \A id \in DOMAIN nodes :
              Written({s \in Statements("node") : s.id = id}) = 1
        /\ Written(Statements("edge")) = Cardinality(edges)
        /\ \A s \in Statements("edge") :
              output[s] = Cardinality({edge \in edges : /\ from_node(edge) = s.from
                                                       /\ to_node(edge) = s.to
                                                       /\ label(edge) = s.label})
        /\ (/\ origin = Artifact(1)
            /\ edges = {EventOf(1, 1, "Output"), EventOf(1, 1, "Input")})
              => /\ Written(Statements("node")) = 2
                 /\ Written(Statements("edge")) = 2
                 /\ Written({s \in Statements("legend") : s.legend = "Artifact"}) = 1
                 /\ Written({s \in Statements("legend") : s.legend = "Execution"}) = 1

\* The scenario: artifact 1 is the origin, the store holds an Output and an
\* Input event between artifact 1 and execution 1, the document is finished.
C14_Witness ==
    /\ pc = "done"
    /\ origin = Artifact(1)
    /\ edges = {EventOf(1, 1, "Output"), EventOf(1, 1, "Input")}
    /\ DOMAIN nodes = {Artifact(1), Execution(1)}

\* C15: a node statement has the style "bold,dashed,filled" if and only if its
\* NodeId (kind and id) is the origin, otherwise "solid,filled"; a finished
\* document has exactly one statement of the origin style.
C15_OriginStyle ==
    /\ \A s \in Statements("node") :
          s.style = IF s.id = origin THEN "bold,dashed,filled" ELSE "solid,filled"
    /\ pc = "done" =>
          Written({s \in Statements("node") : s.style = "bold,dashed,filled"}) = 1

\* A finished document has a node of the other kind with the origin's number.
C15_Witness ==
    /\ pc = "done"
    /\ \E s \in Statements("node") :
          s.id.id = origin.id /\ s.id.kind # origin.kind /\ s.style = "solid,filled"

\* C16: the colour map is determined by the set of artifact type ids and the
\* set of execution type ids of the nodes: every order in which the store can
\* return the types gives the map of this run.
C16_ColorDeterminism ==
    pc = "generate" =>
        \A fa \in Orders(requested_types(type_id, "Artifact")),
           fe \in Orders(requested_types(type_id, "Execution")) :
            colors_of(fa, fe) = colors

\* Two artifact types and one execution type were coloured.
C16_Witness ==
    /\ pc = "generate"
    /\ Cardinality(requested_types(type_id, "Artifact")) = 2
    /\ Cardinality(requested_types(type_id, "Execution")) = 1
    /\ Cardinality(DOMAIN colors) = 3

\* C17: in a finished document the artifact legend has one entry for exactly
\* each type id found among the artifact nodes and the execution legend one for
\* exactly each type id found among the execution nodes.
C17_LegendPartition ==
    pc = "done" =>
        \A kind \in {"Artifact", "Execution"} :
            /\ {s.type : s \in {x \in Statements("legend") : x.legend = kind}}
                  = {Type(kind, type_id[id]) : id \in {n \in DOMAIN nodes : n.kind = kind}}
            /\ \A s \in Statements("legend") : output[s] = 1
            /\ \A s, x \in Statements("legend") : s.type = x.type => s = x

\* A finished document whose artifact legend has two entries and whose
\* execution legend has one.
C17_Witness ==
    /\ pc = "done"
    /\ Cardinality({s \in Statements("legend") : s.legend = "Artifact"}) = 2
    /\ Cardinality({s \in Statements("legend") : s.legend = "Execution"}) = 1

\* C18: within a legend each entry except the one of the smallest type id is
\* chained by one edge from the entry of the next smaller type id: N entries
\* have N-1 chaining edges, and no chaining edge joins the two legends.
C18_LegendChain ==
    pc = "done" =>
        \A kind \in {"Artifact", "Execution"} :
            LET entries == {s.type : s \in {x \in Statements("legend") : x.legend = kind}}
                chains == {s \in Statements("chain") : s.legend = kind}
            IN  /\ {<<s.from, s.to>> : s \in chains}
                      = {<<a, b>> \in entries \X entries :
                            /\ a.id < b.id
                            /\ ~\E c \in entries : a.id < c.id /\ c.id < b.id}
                /\ \A s \in chains : output[s] = 1 /\ s.from.kind = kind /\ s.to.kind = kind
                /\ Written(chains) = IF entries = {} THEN 0 ELSE Cardinality(entries) - 1

\* A legend of two entries has one chaining edge, the other legend has one
\* entry and none.
C18_Witness ==
    /\ pc = "done"
    /\ Written(Statements("chain")) = 1
    /\ Written(Statements("legend")) = 3

\* C19: the identity of an edge is the whole event (artifact id, execution id,
\* event type, path, time). The edge set holds each event the traversal was
\* given exactly once: an event returned again, equal in every field, leaves
\* the set as it is, and events that differ in any one field are kept as
\* distinct edges.
C19_EdgeIdentity ==
    pc \in {"traverse", "generate", "done"} =>
        edges = UNION {get_edges(id) : id \in DOMAIN nodes}

\* The store returned two events between the same artifact and execution that
\* differ in one field only, one of them in two rows: the set holds two edges.
C19_Witness ==
    /\ pc = "generate"
    /\ Cardinality(edges) = 2
    /\ \E a, b \in edges :
          /\ a # b
          /\ edge_eq_endpoints(a, b)
          /\ a.path = b.path \/ a.create_time = b.create_time
          /\ rows[a] = 2

\* C20: at every step of the traversal loop, each endpoint of every edge kept so
\* far is a key of the node map or is still on the worklist.
C20_EndpointsKnownOrPending ==
    pc = "traverse" =>
        \A edge \in edges :
            \A id \in {from_node(edge), to_node(edge)} :
                id \in DOMAIN nodes \/ \E i \in 1..Len(stack) : stack[i] = id

\* In the middle of a traversal an edge is kept whose endpoint was not fetched
\* yet and waits on the worklist.
C20_Witness ==
    /\ pc = "traverse"
    /\ \E edge \in edges :
          /\ to_node(edge) \notin DOMAIN nodes
          /\ \E i \in 1..Len(stack) : stack[i] = to_node(edge)
          /\ from_node(edge) \in DOMAIN nodes

\* C21 as first stated: during one traversal the node record of a NodeId is
\* requested at most once, the events of a NodeId are requested at most once,
\* and no event row is returned by the store to the traversal more than once.
C21_EachEventReturnedOnce ==
    /\ \A id \in NodeId : fetches[id] <= 1
    /\ \A id \in NodeId : event_fetches[id] <= 1
    /\ \A ev \in events : CopiesIn(ev, returned) <= rows[ev]

\* C21: during one traversal the node record of a NodeId is requested from the
\* store at most once and the events of a NodeId are requested at most once; an
\* event row is returned by the store at most once under the I/O policy and at
\* most twice under the lineage policy, once by the query for its artifact and
\* once by the query for its execution.
C21_FetchedAtMostOnce ==
    /\ \A id \in NodeId : fetches[id] <= 1
    /\ \A id \in NodeId : event_fetches[id] <= 1
    /\ \A ev \in events :
          /\ CopiesIn(ev, returned) =
                rows[ev] * (event_fetches[Artifact(ev.artifact_id)]
                            + event_fetches[Execution(ev.execution_id)])
                \/ pc = "error"
          /\ CopiesIn(ev, returned) <= 2 * rows[ev]
          /\ policy = "io" => CopiesIn(ev, returned) <= rows[ev]

\* A lineage traversal asked for the events of an artifact and of an execution
\* and got their common event both times; the worklist still names a visited
\* node.
C21_Witness ==
    /\ policy = "derived"
    /\ pc = "traverse"
    /\ stack # <<>>
    /\ \E ev \in events :
          /\ rows[ev] = 1
          /\ CopiesIn(ev, returned) = 2
          /\ Top(stack) \in {from_node(ev), to_node(ev)}
          /\ contains_key(Top(stack))


\* The nodes one hop from a set of nodes, by the edges get_edges keeps.
Adjacent(S) ==
    UNION {{from_node(ev), to_node(ev)} : ev \in UNION {get_edges(id) : id \in S}}

\* The nodes that are reached from S, whatever the order they are visited in.
RECURSIVE Reach(_)
Reach(S) == IF Adjacent(S) \subseteq S THEN S ELSE Reach(S \cup Adjacent(S))

\* C22: the result of a successful traversal does not depend on visit order:
\* under either worklist discipline and every order in which the store returns
\* the events of a node, the key set of the node map and the edge set are the
\* ones the store contents, the policy and the origin determine.
C22_OrderIndependence ==
    Success =>
        /\ DOMAIN nodes = Reach({origin})
        /\ edges = UNION {get_edges(id) : id \in Reach({origin})}

\* A traversal that popped its worklist as a queue finished with an execution
\* that returned two events.
C22_Witness ==
    /\ discipline = "queue"
    /\ pc = "generate"
    /\ Cardinality(DOMAIN nodes) >= 3
    /\ \E id \in DOMAIN nodes : Cardinality(get_edges(id)) >= 2


\* The distinct type ids of the nodes of a kind.
TypeIdsOf(kind) == {type_id[id] : id \in {n \in DOMAIN type_id : n.kind = kind}}

C24_TypeOfEveryNode ==
    pc \in {"generate", "done", "panic"} =>
        \A id \in DOMAIN nodes : type_id[id] \in DOMAIN types

\* A document was finished for nodes of both kinds with a type each, and every
\* node statement carries the type of its node's kind.
C24_Witness ==
    /\ pc = "done"
    /\ Cardinality(DOMAIN types) = 2
    /\ \E a, b \in Statements("node") : a.id.kind # b.id.kind
    /\ \A s \in Statements("node") : s.tooltip.kind = s.id.kind


\* C25: store calls and output are ordered construct -> colour -> render. No
\* node or event is fetched once a type query was made; a run makes at most one
\* artifact type query and then at most one execution type query, and exactly
\* these two whenever Graph::new returns a graph, whatever the number of
\* nodes; nothing is written before both type queries returned.
C25_ConstructColorRender ==
    /\ [](/\ store_calls.get_execution_types <= store_calls.get_artifact_types
          /\ store_calls.get_artifact_types <= 1
          /\ pc \in {"generate", "done", "panic"}
                => /\ store_calls.get_artifact_types = 1
                   /\ store_calls.get_execution_types = 1
          /\ output # EmptyBag
                => /\ store_calls.get_artifact_types = 1
                   /\ store_calls.get_execution_types = 1)
    /\ [][/\ store_calls.get_artifact_types > 0
                => /\ store_calls'.get_node = store_calls.get_node
                   /\ store_calls'.get_events = store_calls.get_events
                   /\ UNCHANGED <<fetches, event_fetches, returned>>
          /\ store_calls'.get_artifact_types > store_calls.get_artifact_types
                => /\ stack = <<>>
                   /\ store_calls.get_node = Cardinality(DOMAIN nodes)
          /\ output' # output
                => /\ store_calls.get_artifact_types = 1
                   /\ store_calls.get_execution_types = 1]_vars

\* A document was written for three nodes after three node queries, event
\* queries and the two type queries.
C25_Witness ==
    /\ pc = "done"
    /\ Cardinality(DOMAIN nodes) = 3
    /\ store_calls.get_node = 3
    /\ store_calls.get_events >= 2
    /\ store_calls.get_artifact_types = 1
    /\ store_calls.get_execution_types = 1
    /\ output # EmptyBag


\* C26: the URL attribute of every node statement is the empty string when no
\* URL template is configured; with the template {node_type}/{id} it is
\* "artifact"/<id> for an artifact node and "execution"/<id> for an execution
\* node, <id> being the node's own numeric id. The template is compiled before
\* anything is written: one that does not compile leaves the output empty.
C26_NodeUrl ==
    /\ \A s \in Statements("node") :
          /\ url_template \in {None, Some(<<"{node_type}", "/", "{id}">>)}
          /\ url_template = None => s.url = <<>>
          /\ url_template # None =>
                s.url = <<IF s.id.kind = "Artifact" THEN "artifact" ELSE "execution",
                          "/", ToString(s.id.id)>>
    /\ compile_fails(url_template) => (pc = "error" /\ output = EmptyBag)

\* A document was written with a template: it has node statements of both
\* kinds, and two nodes of one numeric id have different URLs.
C26_Witness ==
    /\ pc = "done"
    /\ url_template # None
    /\ \E a, b \in Statements("node") :
          /\ a.id.kind = "Artifact"
          /\ b.id.kind = "Execution"
          /\ a.id.id = b.id.id
          /\ a.url # b.url


C28_NodeColorIsLegendColor ==
    pc = "done" =>
        \A s \in Statements("node") :
            /\ \E l \in Statements("legend") : l.type.id = type_id[s.id]
            /\ \A l \in Statements("legend") :
                  l.type.id = type_id[s.id] =>
                      /\ l.fillcolor = s.fillcolor
                      /\ l.legend = s.id.kind

\* A document with nodes of two artifact types, filled differently, and a node
\* of an execution type.
C28_Witness ==
    /\ pc = "done"
    /\ \E a, b, c \in Statements("node") :
          /\ a.id.kind = "Artifact"
          /\ b.id.kind = "Artifact"
          /\ a.fillcolor # b.fillcolor
          /\ c.id.kind = "Execution"


C30_AllOrNothing ==
    /\ [](/\ printed # None => \A i \in DOMAIN tasks : tasks[i].pc = "ok"
          /\ exit = "ok" => (printed # None /\ \A i \in DOMAIN tasks : tasks[i].pc = "ok")
          /\ exit = "error" => printed = None
          /\ \A i \in DOMAIN tasks :
                tasks[i].pc = "failed" =>
                    \A k \in 2..Len(tasks[i].commands) :
                        executed[tasks[i].commands[k][1]] = <<>>)
    /\ [][\A i \in DOMAIN tasks : tasks[i].pc = "failed" => tasks'[i] = tasks[i]]_vars
    /\ ((\E i \in DOMAIN tasks : tasks[i].pc = "failed") ~> (exit = "error"))

\* One worker executed its command; the other failed on its first command and
\* left its second unexecuted: the batch ended with an error and printed
\* nothing.
C30_Witness ==
    /\ exit = "error"
    /\ printed = None
    /\ \E i, k \in DOMAIN tasks :
          /\ tasks[i].pc = "failed"
          /\ Len(tasks[i].commands) = 2
          /\ executed[tasks[i].commands[1][1]] = <<i>>
          /\ tasks[k].pc = "ok"
          /\ tasks[k].results # <<>>


====
